---- MODULE Spec2Model ----
(***************************************************************************)
(* Input serializers of the CP2K and ORCA job adapters and the settings    *)
(* reconstruction of the ADF results adapter.                              *)
(*                                                                         *)
(* Text is a sequence of one-character strings, so that upper-casing,      *)
(* substring tests, lengths and line structure are computed, not assumed.  *)
(* A settings value is a tagged record:                                    *)
(*   [t |-> "str", s],  [t |-> "int", n],  [t |-> "bool", b],              *)
(*   [t |-> "list", l]  (a Python list),                                   *)
(*   [t |-> "tree", items]  (a Settings: <<key, value>> pairs in           *)
(*                           iteration order).                             *)
(***************************************************************************)
EXTENDS Integers, Sequences, FiniteSets, TLC

VARIABLES
    job,        \* which adapter the job object is: "cp2k", "orca" or "adf"
    settings,   \* self.settings.input, a tree
    molecule,   \* self.molecule: [t |-> "none"] or a molecule
    pc,         \* position of the running method
    out,        \* the text get_input returned
    kf,         \* the KF file behind an ADFResults
    user_input, \* recreate_settings: the stored input text
    first,      \* recreate_settings: how the first parse ended
    conv,       \* recreate_settings: how convert_legacy_input ended
    second,     \* recreate_settings: how the second parse ended
    calls,      \* recreate_settings: the external calls made, in order
    logged,     \* recreate_settings: number of log() calls
    ret         \* recreate_settings: what the call ended with

vars == <<job, settings, molecule, pc, out, kf, user_input, first, conv,
          second, calls, logged, ret>>

----------------------------------------------------------------------------
(* Python text primitives *)

NL == <<"\n">>
SP == <<" ">>

LowerCase == <<"a","b","c","d","e","f","g","h","i","j","k","l","m",
               "n","o","p","q","r","s","t","u","v","w","x","y","z">>
UpperCase == <<"A","B","C","D","E","F","G","H","I","J","K","L","M",
               "N","O","P","Q","R","S","T","U","V","W","X","Y","Z">>
Digits == <<"0","1","2","3","4","5","6","7","8","9">>

\* str.upper() on one character
upper_char(c) ==
    IF \E i \in DOMAIN LowerCase : LowerCase[i] = c
    THEN UpperCase[CHOOSE i \in DOMAIN LowerCase : LowerCase[i] = c]
    ELSE c

\* str.upper()
upper(s) == [i \in 1..Len(s) |-> upper_char(s[i])]

\* the Python test  sub in s  on strings
contains(sub, s) ==
    \E i \in 0..(Len(s) - Len(sub)) : SubSeq(s, i + 1, i + Len(sub)) = sub

\* n * ' '
spaces(n) == [i \in 1..n |-> " "]

RECURSIVE nat_str(_)
nat_str(n) ==
    IF n < 10 THEN <<Digits[n + 1]>>
    ELSE nat_str(n \div 10) \o <<Digits[(n % 10) + 1]>>

\* str() of an int
int_str(n) == IF n < 0 THEN <<"-">> \o nat_str(-n) ELSE nat_str(n)

\* str() of a bool
bool_str(b) == IF b THEN <<"T","r","u","e">> ELSE <<"F","a","l","s","e">>

\* repr() of a scalar (the strings of the model hold no quote or escape)
py_repr(v) ==
    CASE v.t = "str"  -> <<"'">> \o v.s \o <<"'">>
      [] v.t = "int"  -> int_str(v.n)
      [] v.t = "bool" -> bool_str(v.b)

RECURSIVE join_repr(_)
join_repr(l) ==
    IF Len(l) = 0 THEN <<>>
    ELSE IF Len(l) = 1 THEN py_repr(l[1])
    ELSE py_repr(l[1]) \o <<",", " ">> \o join_repr(Tail(l))

\* str() / '{}'.format() of a scalar or of a list of scalars
py_str(v) ==
    CASE v.t = "str"  -> v.s
      [] v.t = "int"  -> int_str(v.n)
      [] v.t = "bool" -> bool_str(v.b)
      [] v.t = "list" -> <<"[">> \o join_repr(v.l) \o <<"]">>

\* constructors of settings values
VStr(s)   == [t |-> "str", s |-> s]
VInt(n)   == [t |-> "int", n |-> n]
VBool(b)  == [t |-> "bool", b |-> b]
VList(l)  == [t |-> "list", l |-> l]
VTree(it) == [t |-> "tree", items |-> it]

\* isinstance(value, Settings) / isinstance(value, list)
is_settings(v) == v.t = "tree"
is_list(v) == v.t = "list"

----------------------------------------------------------------------------
(* Cp2kJob.get_input *)

KW_KIND       == <<"K","I","N","D">>
KW_AT_SET     == <<"A","T","_","S","E","T">>
KW_AT_INCLUDE == <<"A","T","_","I","N","C","L","U","D","E">>
KW_AT_IF      == <<"A","T","_","I","F">>

_reserved_keywords == <<KW_KIND, KW_AT_SET, KW_AT_INCLUDE, KW_AT_IF>>

\* variant: a reserved keyword anywhere in the key (k in key)
is_plain_block_mut(key) ==
    ~ \E i \in DOMAIN _reserved_keywords : contains(_reserved_keywords[i], key)

\* not any(k == key for k in _reserved_keywords)
is_plain_block(key) ==
    ~ \E i \in DOMAIN _reserved_keywords : _reserved_keywords[i] = key

\* variant: any bool is a flag
is_flag_mut(value) ==
    \/ (value.t = "str" /\ value.s = <<>>)
    \/ (value.t = "bool")

\* value is '' or value is True  (the empty str is one object in CPython;
\* the int 1 is not the object True)
is_flag(value) ==
    \/ (value.t = "str" /\ value.s = <<>>)
    \/ (value.t = "bool" /\ value.b = TRUE)

\* the last two branches of parse: a scalar under an upper-cased key
scalar_line(key, value, indent) ==
    IF is_flag(value)
    THEN indent \o key \o NL
    ELSE indent \o key \o <<" ", " ">> \o py_str(value) \o NL

\* '@include {}\n'.format(value)
include_line(value) ==
    <<"@","i","n","c","l","u","d","e"," ">> \o py_str(value) \o NL

\* '@SET {} {}\n'.format(var, val), (var, val) the first item of value
set_line(value) ==
    <<"@","S","E","T"," ">> \o value.items[1][1] \o SP
        \o py_str(value.items[1][2]) \o NL

RECURSIVE parse(_, _, _)
RECURSIVE parse_items(_, _)
RECURSIVE parse_list(_, _, _)
RECURSIVE parse_kinds(_, _, _)

\* for el in value: ret += parse(el, value[el], indent)
parse_items(items, indent) ==
    IF Len(items) = 0 THEN <<>>
    ELSE parse(items[1][1], items[1][2], indent)
             \o parse_items(Tail(items), indent)

\* variant: the elements in reverse order
parse_list_mut(key, l, indent) ==
    IF Len(l) = 0 THEN <<>>
    ELSE parse_list(key, Tail(l), indent) \o parse(key, l[1], indent)

\* for el in value: ret += parse(key, el, indent)
parse_list(key, l, indent) ==
    IF Len(l) = 0 THEN <<>>
    ELSE parse(key, l[1], indent) \o parse_list(key, Tail(l), indent)

\* one named block of the KIND branch
kind_block(key, el, sub, indent) ==
    indent \o <<"&">> \o key \o <<" ", " ">> \o upper(el) \o NL
        \o parse_items(sub.items, indent \o <<" ", " ">>)
        \o indent \o <<"&","E","N","D">> \o NL

\* the KIND branch: one block per child
parse_kinds(key, items, indent) ==
    IF Len(items) = 0 THEN <<>>
    ELSE kind_block(key, items[1][1], items[1][2], indent)
             \o parse_kinds(key, Tail(items), indent)

\* the plain block
plain_block(key, value, indent) ==
    indent \o <<"&">> \o key \o NL
        \o parse_items(value.items, indent \o <<" ", " ">>)
        \o indent \o <<"&","E","N","D">> \o NL

\* variant: the predicate upper-cased like a key
at_if_block_mut(value, indent) ==
    indent \o <<"@","I","F"," ">> \o upper(value.items[1][1]) \o NL
        \o parse_items(value.items[1][2].items, indent \o <<" ", " ">>)
        \o indent \o <<"@","E","N","D","I","F">> \o NL

\* the AT_IF branch: pred, branch = tuple(value.items())[0]
at_if_block(value, indent) ==
    indent \o <<"@","I","F"," ">> \o value.items[1][1] \o NL
        \o parse_items(value.items[1][2].items, indent \o <<" ", " ">>)
        \o indent \o <<"@","E","N","D","I","F">> \o NL

parse(key0, value, indent) ==
    LET key == upper(key0) IN
    IF is_settings(value) THEN
        IF is_plain_block(key) THEN plain_block(key, value, indent)
        ELSE IF contains(KW_KIND, key) THEN parse_kinds(key, value.items, indent)
        ELSE IF contains(KW_AT_SET, key) THEN set_line(value)
        ELSE IF contains(KW_AT_IF, key) THEN at_if_block(value, indent)
        ELSE <<>>
    ELSE IF key = KW_AT_INCLUDE THEN include_line(value)
    ELSE IF is_list(value) THEN parse_list(key, value.l, indent)
    ELSE scalar_line(key, value, indent)

\* for item in self.settings.input: inp += parse(item, ...) + '\n'
RECURSIVE cp2k_top(_)
cp2k_top(items) ==
    IF Len(items) = 0 THEN <<>>
    ELSE parse(items[1][1], items[1][2], <<>>) \o NL \o cp2k_top(Tail(items))

cp2k_get_input(s) == cp2k_top(s.items)

\* the invocations parse(key, value, indent) that one parse(...) makes,
\* itself included
RECURSIVE parse_calls(_, _, _)
RECURSIVE items_calls(_, _)
items_calls(items, indent) ==
    UNION {parse_calls(items[i][1], items[i][2], indent) : i \in DOMAIN items}

parse_calls(key0, value, indent) ==
    LET key == upper(key0)
        deeper == indent \o <<" ", " ">>
    IN  {<<key0, value, indent>>} \cup
        IF is_settings(value) THEN
            IF is_plain_block(key) THEN items_calls(value.items, deeper)
            ELSE IF contains(KW_KIND, key)
                 THEN UNION {items_calls(value.items[i][2].items, deeper) :
                                i \in DOMAIN value.items}
            ELSE IF contains(KW_AT_SET, key) THEN {}
            ELSE IF contains(KW_AT_IF, key)
                 THEN items_calls(value.items[1][2].items, deeper)
            ELSE {}
        ELSE IF key = KW_AT_INCLUDE THEN {}
        ELSE IF is_list(value)
             THEN UNION {parse_calls(key, value.l[i], indent) :
                            i \in DOMAIN value.l}
        ELSE {}

\* every invocation of parse during get_input
cp2k_calls(s) == items_calls(s.items, <<>>)

----------------------------------------------------------------------------
(* ORCAJob.get_input *)

K_main == <<"m","a","i","n">>
K_end  == <<"_","e","n","d">>
K_charge == <<"c","h","a","r","g","e">>
K_multiplicity == <<"m","u","l","t","i","p","l","i","c","i","t","y">>

\* key in s, for a Settings s
has_key(s, key) == \E i \in DOMAIN s.items : s.items[i][1] = key

\* s[key], for a key of s
lookup(s, key) ==
    s.items[CHOOSE i \in DOMAIN s.items : s.items[i][1] = key][2]

\* get_end(s), as the text '{}'.format() makes of what it returns
get_end(s) ==
    IF (~ is_settings(s)) \/ (~ has_key(s, K_end))
    THEN py_str(s)
    ELSE py_str(lookup(s, K_end)) \o <<" ","e","n","d">>

\* pretty_print_inner(s, indent); isFirst is  i == 0
RECURSIVE pretty_print_inner(_, _, _)
pretty_print_inner(items, indent, isFirst) ==
    IF Len(items) = 0 THEN <<>>
    ELSE (IF isFirst
          THEN SP \o items[1][1] \o SP \o get_end(items[1][2]) \o NL
          ELSE indent \o items[1][1] \o SP \o get_end(items[1][2]) \o NL)
         \o pretty_print_inner(Tail(items), indent, FALSE)

RECURSIVE pretty_print_orca(_, _)
RECURSIVE orca_items(_, _)
RECURSIVE orca_list(_)

\* for elem in s: inp += '{}'.format(elem)
orca_list(l) ==
    IF Len(l) = 0 THEN <<>> ELSE py_str(l[1]) \o orca_list(Tail(l))

\* variant: main's value through get_end
main_line_mut(v, indent) ==
    <<"!", " ">> \o get_end(v) \o NL \o NL

\* the  ! ...  line of the key main
main_line(v, indent) ==
    <<"!", " ">> \o pretty_print_orca(v, indent) \o NL \o NL

\* variant: an indent of len(k) + 1
orca_block_mut(k, v) ==
    LET indent2 == spaces(Len(k) + 1)
        block == IF ~ is_settings(v)
                 THEN pretty_print_orca(v, <<>>)
                 ELSE pretty_print_inner(v.items, indent2, TRUE)
    IN  <<"%">> \o k \o block \o indent2 \o <<"e","n","d">> \o NL \o NL

\* the  %k ... end  block of any other key
orca_block(k, v) ==
    LET indent2 == spaces(Len(k) + 2)
        block == IF ~ is_settings(v)
                 THEN pretty_print_orca(v, <<>>)
                 ELSE pretty_print_inner(v.items, indent2, TRUE)
    IN  <<"%">> \o k \o block \o indent2 \o <<"e","n","d">> \o NL \o NL

\* for k, v in s.items(): ...
orca_items(items, indent) ==
    IF Len(items) = 0 THEN <<>>
    ELSE (IF items[1][1] = K_main
          THEN main_line(items[1][2], indent)
          ELSE orca_block(items[1][1], items[1][2]))
         \o orca_items(Tail(items), indent)

pretty_print_orca(s, indent) ==
    IF is_settings(s) THEN orca_items(s.items, indent)
    ELSE IF is_list(s) THEN orca_list(s.l)
    ELSE py_str(s)

(* ORCAJob.print_molecule *)

AtomSpace == 11
AtomDecimal == 5

\* s.rjust(n)
rjust(s, n) == IF Len(s) >= n THEN s ELSE spaces(n - Len(s)) \o s

\* a whole number in the format {:>11.5f}
fixed(x) ==
    rjust(int_str(x) \o <<".">> \o [i \in 1..AtomDecimal |-> "0"], AtomSpace)

\* at.str(symbol=True, space=11, decimal=5)
atom_str(at) ==
    at.symbol \o fixed(at.coords[1]) \o fixed(at.coords[2])
        \o fixed(at.coords[3])

\* bool(mol): a molecule is true when it has atoms
mol_truth(mol) == mol.t = "mol" /\ Len(mol.atoms) > 0

\* '\n'.join(at.str(...) for at in mol.atoms)
RECURSIVE join_atoms(_)
join_atoms(atoms) ==
    IF Len(atoms) = 0 THEN <<>>
    ELSE IF Len(atoms) = 1 THEN atom_str(atoms[1])
    ELSE atom_str(atoms[1]) \o NL \o join_atoms(Tail(atoms))

\* isinstance(x, int): a bool is an int in Python
is_int(x) == x.t \in {"int", "bool"}

\* charge: the property when present and an int, else 0
mol_charge(mol) ==
    IF has_key(mol.properties, K_charge)
         /\ is_int(lookup(mol.properties, K_charge))
    THEN lookup(mol.properties, K_charge)
    ELSE VInt(0)

\* variant: the multiplicity read only when a charge is given
mol_multi_mut(mol) ==
    IF has_key(mol.properties, K_charge)
         /\ has_key(mol.properties, K_multiplicity)
         /\ is_int(lookup(mol.properties, K_multiplicity))
    THEN lookup(mol.properties, K_multiplicity)
    ELSE VInt(1)

\* multi: the property when present and an int, else 1
mol_multi(mol) ==
    IF has_key(mol.properties, K_multiplicity)
         /\ is_int(lookup(mol.properties, K_multiplicity))
    THEN lookup(mol.properties, K_multiplicity)
    ELSE VInt(1)

print_molecule(mol) ==
    IF mol_truth(mol)
    THEN <<"*"," ","x","y","z"," ">> \o py_str(mol_charge(mol)) \o SP
             \o py_str(mol_multi(mol)) \o NL
             \o join_atoms(mol.atoms) \o NL \o <<"*">> \o NL \o NL
    ELSE <<>>

orca_get_input(s, mol) == pretty_print_orca(s, <<>>) \o print_molecule(mol)

----------------------------------------------------------------------------
(* ADFResults.recreate_settings: the text read from the KF file *)

RecordLen == 160

\* str.rstrip()
RECURSIVE rstrip(_)
rstrip(s) ==
    IF Len(s) > 0 /\ s[Len(s)] \in {" ", "\n", "\t"}
    THEN rstrip(SubSeq(s, 1, Len(s) - 1))
    ELSE s

\* '\n'.join([tmp[i:160+i].rstrip() for i in range(0, len(tmp), 160)])
RECURSIVE unwrap_records(_)
unwrap_records(tmp) ==
    IF Len(tmp) <= RecordLen THEN rstrip(tmp)
    ELSE rstrip(SubSeq(tmp, 1, RecordLen)) \o NL
             \o unwrap_records(SubSeq(tmp, RecordLen + 1, Len(tmp)))

\* the text recreate_settings hands to the parser
read_user_input(f) ==
    IF f.has_input THEN unwrap_records(f.text) ELSE f.text

----------------------------------------------------------------------------
(* Bounds and the inputs drawn in Init *)

MaxList  == 2   \* longest list value
MaxWrap  == 2   \* deepest nesting of blocks around a CP2K leaf
MaxSub   == 2   \* most sub-items of an ORCA block
MaxAtoms == 2   \* most atoms of a molecule

SeqsUpTo(S, n) == UNION {[1..m -> S] : m \in 0..n}

NoMolecule == [t |-> "none"]
NoKf == [present |-> FALSE, has_input |-> FALSE, text |-> <<>>]

K_a   == <<"a","B">>
K_z   == <<"z">>
K_blk == <<"f","o","r","c","e">>
K_h   == <<"h">>
K_o   == <<"o","2">>

Cp2kScalars ==
    {VBool(TRUE), VBool(FALSE), VStr(<<>>), VStr(<<"x","y">>), VInt(0), VInt(1)}
Cp2kListElems == {VBool(TRUE), VStr(<<>>), VInt(1)}
Cp2kLists == {VList(l) : l \in SeqsUpTo(Cp2kListElems, MaxList)}
Cp2kLeaves == Cp2kScalars \cup Cp2kLists
Cp2kLeafKeys == {K_a, <<"A","t","_","i","n","c","l","u","d","e">>}

Sib == <<K_z, VInt(7)>>

Cp2kBase ==
    {<<k, v>> : k \in Cp2kLeafKeys, v \in Cp2kLeaves}
    \cup {<<k, v>> : k \in {<<"m","y","k","i","n","d">>}, v \in Cp2kScalars}
    \cup { <<KW_AT_SET, VTree(<< <<<<"v","a","r">>, VInt(3)>> >>)>>,
           <<K_blk, VTree(<<>>)>>,
           <<KW_KIND, VTree(<<>>)>>,
           <<KW_AT_IF, VTree(<< <<<<"p","r","e","d">>, VTree(<<>>)>> >>)>>,
           <<KW_AT_IF, VTree(<< <<<<"p","r","e","d">>,
                                  VTree(<< <<<<"X">>, VInt(1)>> >>)>> >>)>>,
           <<<<"A">>, VList(<<VInt(1), VInt(2)>>)>>,
           <<<<"A">>, VList(<<VStr(<<>>), VInt(0), VBool(FALSE)>>)>>,
           <<KW_AT_INCLUDE, VList(<<VInt(1), VStr(<<"f">>)>>)>> }

\* the blocks one level around an item
Wrappers(it) ==
    { <<K_blk, VTree(<<Sib, it>>)>>,
      <<<<"k","i","n","d">>,
        VTree(<< <<K_h, VTree(<<it>>)>>, <<K_o, VTree(<<Sib>>)>> >>)>>,
      <<<<"K","i","n","d","_","a">>, VTree(<< <<K_h, VTree(<<it>>)>> >>)>>,
      <<<<"M","Y","K","I","N","D">>, VTree(<< <<K_h, VTree(<<it>>)>> >>)>>,
      <<<<"a","t","_","I","F">>,
        VTree(<< <<<<"p","r","e","d">>, VTree(<<it, Sib>>)>> >>)>> }

RECURSIVE Cp2kItems(_)
Cp2kItems(d) ==
    IF d = 0 THEN Cp2kBase
    ELSE Cp2kItems(d - 1) \cup UNION {Wrappers(it) : it \in Cp2kItems(d - 1)}

Cp2kSettings ==
    {VTree(<<>>)}
    \cup {VTree(<<it>>) : it \in Cp2kItems(MaxWrap)}
    \cup {VTree(<<it, Sib>>) : it \in Cp2kBase}

B3LYP == <<"B","3","L","Y","P"," ","S","V","(","P",")">>
SubKeys == <<<<"N","e","w","G","T","O">>, <<"x">>, <<"m","a","i","n">>, <<"y","y">>>>

OrcaSubVals ==
    { VInt(26), VStr(<<"7">>), VBool(TRUE),
      VTree(<< <<K_end, VStr(<<"2","6"," ","T","Z","V">>)>> >>),
      VTree(<< <<K_a, VInt(1)>>, <<K_end, VInt(7)>> >>),
      VList(<<VInt(1), VStr(<<"s">>)>>) }

OrcaSubTrees ==
    {VTree([i \in 1..Len(f) |-> <<SubKeys[i], f[i]>>]) :
        f \in SeqsUpTo(OrcaSubVals, MaxSub)}

OrcaBlockKeys == {<<"s","c","f">>, <<"b","a","s","i","s">>}
OrcaBlocks == {<<k, v>> : k \in OrcaBlockKeys, v \in OrcaSubTrees}
OrcaSimple ==
    {<<k, v>> : k \in OrcaBlockKeys,
                v \in {VInt(3), VList(<<VStr(<<"p">>), VInt(2)>>)}}
OrcaMains ==
    {<<K_main, v>> :
        v \in { VStr(B3LYP), VInt(1), VList(<<VStr(<<"H","F">>), VStr(<<"S","T","O">>)>>),
                VTree(<< <<K_end, VStr(<<"x">>)>> >>),
                VTree(<< <<<<"s","c","f">>, VTree(<< <<<<"x">>, VInt(1)>> >>)>> >>) }}
FewBlocks == {<<<<"s","c","f">>, VTree(<< <<<<"x">>, VInt(1)>> >>)>>}

OrcaSettings ==
    {VTree(<<>>)}
    \cup {VTree(<<it>>) : it \in OrcaBlocks \cup OrcaSimple \cup OrcaMains}
    \cup {VTree(<<m, b>>) : m \in OrcaMains, b \in FewBlocks}
    \cup {VTree(<<b, m>>) : m \in OrcaMains, b \in FewBlocks}

Atoms ==
    { [symbol |-> <<"H">>, coords |-> <<0, 0, 0>>],
      [symbol |-> <<"C","l">>, coords |-> <<1, -1, 12>>] }
VFloat == [t |-> "float"]
Charges == {VInt(0), VInt(-1), VInt(2), VBool(TRUE), VStr(<<"1">>), VFloat}
Multis  == {VInt(3), VFloat}
Properties ==
    {VTree(<<>>)}
    \cup {VTree(<< <<K_charge, c>> >>) : c \in Charges}
    \cup {VTree(<< <<K_multiplicity, m>> >>) : m \in Multis}
    \cup {VTree(<< <<K_charge, c>>, <<K_multiplicity, m>> >>) :
             c \in Charges, m \in Multis}
Molecules ==
    {[t |-> "mol", atoms |-> a, properties |-> p] :
        a \in SeqsUpTo(Atoms, MaxAtoms), p \in Properties}
OrcaFewSettings ==
    {VTree(<<>>), VTree(<< <<K_main, VStr(B3LYP)>> >>)}

KfTexts ==
    { <<"a","d","f"," "," ">>,
      [i \in 1..(RecordLen + 2) |-> IF i \in {RecordLen - 1, RecordLen} THEN " " ELSE "q"] }
KfFiles ==
    {NoKf} \cup {[present |-> TRUE, has_input |-> h, text |-> x] :
                    h \in BOOLEAN, x \in KfTexts}

----------------------------------------------------------------------------
(* The state machine *)

Init ==
    /\ pc = "ready"
    /\ out = <<>>
    /\ user_input = <<>>
    /\ first = "none" /\ conv = "none" /\ second = "none"
    /\ calls = <<>>
    /\ logged = 0
    /\ ret = "unset"
    /\ \/ /\ job = "cp2k"
          /\ settings \in Cp2kSettings
          /\ molecule = NoMolecule
          /\ kf = NoKf
       \/ /\ job = "orca"
          /\ \/ settings \in OrcaSettings /\ molecule = NoMolecule
             \/ settings \in OrcaFewSettings /\ molecule \in Molecules
          /\ kf = NoKf
       \/ /\ job = "adf"
          /\ settings = VTree(<<>>)
          /\ molecule = NoMolecule
          /\ kf \in KfFiles

AdfVars == <<kf, user_input, first, conv, second, calls, logged, ret>>

\* Cp2kJob.get_input()
Cp2kGetInput ==
    /\ job = "cp2k" /\ pc = "ready"
    /\ out' = cp2k_get_input(settings)
    /\ pc' = "done"
    /\ UNCHANGED <<job, settings, molecule>>
    /\ UNCHANGED AdfVars

\* ORCAJob.get_input()
OrcaGetInput ==
    /\ job = "orca" /\ pc = "ready"
    /\ out' = orca_get_input(settings, molecule)
    /\ pc' = "done"
    /\ UNCHANGED <<job, settings, molecule>>
    /\ UNCHANGED AdfVars

ParseOutcomes == {"ok", "CalledProcessError", "other"}
ConvertOutcomes == {"ok", "raised"}

\* recreate_settings without a KF file: return None
AdfNoKf ==
    /\ job = "adf" /\ pc = "ready"
    /\ ~ kf.present
    /\ ret' = "None"
    /\ pc' = "done"
    /\ UNCHANGED <<job, settings, molecule, out, kf, user_input, first, conv,
                   second, calls, logged>>

\* recreate_settings: read the stored input
AdfReadInput ==
    /\ job = "adf" /\ pc = "ready"
    /\ kf.present
    /\ user_input' = read_user_input(kf)
    /\ pc' = "parse1"
    /\ UNCHANGED <<job, settings, molecule, out, kf, first, conv, second,
                   calls, logged, ret>>

\* variant: the legacy path after any failure
after_first_mut(o) == IF o = "ok" THEN "build" ELSE "convert"

\* where the outer try statement goes after the first parse ended with o
after_first(o) ==
    CASE o = "ok" -> "build"
      [] o = "CalledProcessError" -> "convert"
      [] OTHER -> "failed"

\* the outer try: input_to_settings(user_input)
AdfFirstParse ==
    /\ pc = "parse1"
    /\ \E o \in ParseOutcomes :
          /\ first' = o
          /\ pc' = after_first(o)
    /\ calls' = Append(calls, "input_to_settings")
    /\ UNCHANGED <<job, settings, molecule, out, kf, user_input, conv, second,
                   logged, ret>>

\* where the handler goes after convert_legacy_input ended with o
after_convert(o) == IF o = "ok" THEN "parse2" ELSE "raise"

\* except CalledProcessError: convert_legacy_input(user_input)
AdfConvert ==
    /\ pc = "convert"
    /\ \E o \in ConvertOutcomes :
          /\ conv' = o
          /\ pc' = after_convert(o)
    /\ calls' = Append(calls, "convert_legacy_input")
    /\ UNCHANGED <<job, settings, molecule, out, kf, user_input, first, second,
                   logged, ret>>

\* the inner try: input_to_settings(new_input)
AdfSecondParse ==
    /\ pc = "parse2"
    /\ \E o \in ParseOutcomes :
          /\ second' = o
          /\ pc' = IF o = "ok" THEN "build" ELSE "failed"
    /\ calls' = Append(calls, "input_to_settings")
    /\ UNCHANGED <<job, settings, molecule, out, kf, user_input, first, conv,
                   logged, ret>>

\* a bare except: log(...) and return None
AdfLogFailure ==
    /\ pc = "failed"
    /\ logged' = logged + 1
    /\ ret' = "None"
    /\ pc' = "done"
    /\ UNCHANGED <<job, settings, molecule, out, kf, user_input, first, conv,
                   second, calls>>

\* an exception no handler catches leaves recreate_settings
AdfPropagate ==
    /\ pc = "raise"
    /\ ret' = "raised"
    /\ pc' = "done"
    /\ UNCHANGED <<job, settings, molecule, out, kf, user_input, first, conv,
                   second, calls, logged>>

\* s = Settings(); s.input = inp; ...; return s
AdfBuild ==
    /\ pc = "build"
    /\ ret' = "Settings"
    /\ pc' = "done"
    /\ UNCHANGED <<job, settings, molecule, out, kf, user_input, first, conv,
                   second, calls, logged>>

Next ==
    \/ Cp2kGetInput
    \/ OrcaGetInput
    \/ AdfNoKf
    \/ AdfReadInput
    \/ AdfFirstParse
    \/ AdfConvert
    \/ AdfSecondParse
    \/ AdfLogFailure
    \/ AdfPropagate
    \/ AdfBuild

Spec == Init /\ [][Next]_vars

----------------------------------------------------------------------------
(* Properties *)

\* the lines of a text, each without its line end
RECURSIVE SplitLines(_)
SplitLines(s) ==
    IF Len(s) = 0 THEN <<>>
    ELSE LET i == CHOOSE i \in 1..(Len(s) + 1) :
                     /\ \A j \in 1..(i - 1) : s[j] # "\n"
                     /\ (i = Len(s) + 1 \/ s[i] = "\n")
         IN  <<SubSeq(s, 1, i - 1)>>
                 \o (IF i >= Len(s) THEN <<>>
                     ELSE SplitLines(SubSeq(s, i + 1, Len(s))))

\* ls occurs in ms as consecutive elements
IsInfix(ls, ms) ==
    \E i \in 0..(Len(ms) - Len(ls)) : SubSeq(ms, i + 1, i + Len(ls)) = ls

IsScalar(v) == v.t \in {"str", "int", "bool"}

Cp2kDone == job = "cp2k" /\ pc = "done"
OrcaDone == job = "orca" /\ pc = "done"
AdfDone  == job = "adf" /\ pc = "done"

\* the line the scalar rule gives: a bare upper-cased key for True and for
\* '', and KEY, two spaces and str(v) for anything else
ScalarRule(k, v, indent) ==
    IF v = VBool(TRUE) \/ v = VStr(<<>>)
    THEN indent \o upper(k)
    ELSE indent \o upper(k) \o <<" ", " ">> \o py_str(v)

C1_Holds(c) ==
    /\ parse(c[1], c[2], c[3]) = ScalarRule(c[1], c[2], c[3]) \o NL
    /\ IsInfix(<<ScalarRule(c[1], c[2], c[3])>>, SplitLines(out))

\* C1 as stated: for EVERY key and at every nesting depth a scalar leaf that
\* is True or '' is the one line <indent>KEY, and any other scalar leaf is
\* the one line <indent>KEY  <str(v)>.
C1_AsStated ==
    Cp2kDone =>
        \A c \in cp2k_calls(settings) : IsScalar(c[2]) => C1_Holds(c)

\* C1 amended: the same for every key other than AT_INCLUDE (upper-cased),
\* at every nesting depth; a key that upper-cases to AT_INCLUDE is written
\* as the line @include <str(v)> instead.
C1_ScalarLeaf ==
    Cp2kDone =>
        \A c \in cp2k_calls(settings) :
            IsScalar(c[2]) =>
                IF upper(c[1]) # KW_AT_INCLUDE
                THEN C1_Holds(c)
                ELSE parse(c[1], c[2], c[3])
                         = <<"@","i","n","c","l","u","d","e"," ">>
                               \o py_str(c[2]) \o NL

C1_Witness ==
    /\ Cp2kDone
    /\ \E c \in cp2k_calls(settings) :
          /\ c[2] = VBool(TRUE) /\ Len(c[3]) = 4 /\ upper(c[1]) # KW_AT_INCLUDE
          /\ c[1] # upper(c[1])

\* the named blocks the KIND rule gives for the children of a tree
RECURSIVE KindRule(_, _, _)
KindRule(k, items, indent) ==
    IF Len(items) = 0 THEN <<>>
    ELSE indent \o <<"&">> \o upper(k) \o <<" ", " ">> \o upper(items[1][1]) \o NL
             \o parse_items(items[1][2].items, indent \o <<" ", " ">>)
             \o indent \o <<"&","E","N","D">> \o NL
             \o KindRule(k, Tail(items), indent)

C2_Holds(c) ==
    /\ parse(c[1], c[2], c[3]) = KindRule(c[1], c[2].items, c[3])
    /\ ~ IsInfix(<<c[3] \o <<"&">> \o upper(c[1])>>,
                 SplitLines(parse(c[1], c[2], c[3])))
    /\ IsInfix(KindRule(c[1], c[2].items, c[3]), out)

\* C2 as stated: whenever the key of a tree CONTAINS "KIND" each child is
\* its own block  &KEY  CHILD ... &END  and no enclosing &KEY block exists.
C2_AsStated ==
    Cp2kDone =>
        \A c \in cp2k_calls(settings) :
            (is_settings(c[2]) /\ contains(KW_KIND, upper(c[1])))
                => C2_Holds(c)

\* C2 amended: whenever the upper-cased key of a tree IS "KIND" each child
\* is its own block; a key that only contains KIND (KIND_A, MYKIND) is an
\* ordinary &KEY ... &END block around its children.
C2_KindBlocks ==
    Cp2kDone =>
        \A c \in cp2k_calls(settings) :
            is_settings(c[2]) =>
                /\ upper(c[1]) = KW_KIND => C2_Holds(c)
                /\ (contains(KW_KIND, upper(c[1])) /\ upper(c[1]) # KW_KIND) =>
                      /\ SplitLines(parse(c[1], c[2], c[3]))[1]
                             = c[3] \o <<"&">> \o upper(c[1])
                      /\ parse(c[1], c[2], c[3])
                             = c[3] \o <<"&">> \o upper(c[1]) \o NL
                                 \o parse_items(c[2].items, c[3] \o <<" ", " ">>)
                                 \o c[3] \o <<"&","E","N","D">> \o NL

C2_Witness ==
    /\ Cp2kDone
    /\ \E c \in cp2k_calls(settings) :
          /\ is_settings(c[2]) /\ upper(c[1]) = KW_KIND
          /\ Len(c[2].items) = 2 /\ Len(c[3]) >= 2
    /\ \E c \in cp2k_calls(settings) :
          /\ is_settings(c[2]) /\ upper(c[1]) # KW_KIND
          /\ contains(KW_KIND, upper(c[1]))

\* the lines the list rule gives: one per element, by the scalar rule
ListRule(k, l, indent) == [i \in 1..Len(l) |-> ScalarRule(k, l[i], indent)]

C3_Holds(c) ==
    /\ SplitLines(parse(c[1], c[2], c[3])) = ListRule(c[1], c[2].l, c[3])
    /\ IsInfix(ListRule(c[1], c[2].l, c[3]), SplitLines(out))

\* C3 as stated: a list-valued leaf of n elements is n consecutive lines,
\* one per element in order, each with the upper-cased key at the indent of
\* the enclosing block; an empty list is no line.
C3_AsStated ==
    Cp2kDone =>
        \A c \in cp2k_calls(settings) : is_list(c[2]) => C3_Holds(c)

\* C3 amended: the same for a list under any key other than AT_INCLUDE; a
\* list under AT_INCLUDE is the single line @include <str(list)>.
C3_ListLeaf ==
    Cp2kDone =>
        \A c \in cp2k_calls(settings) :
            is_list(c[2]) =>
                IF upper(c[1]) # KW_AT_INCLUDE
                THEN C3_Holds(c)
                ELSE SplitLines(parse(c[1], c[2], c[3]))
                         = << <<"@","i","n","c","l","u","d","e"," ">>
                                  \o py_str(c[2]) >>

C3_Witness ==
    /\ Cp2kDone
    /\ \E c \in cp2k_calls(settings) :
          /\ is_list(c[2]) /\ Len(c[2].l) = 2 /\ c[2].l[1] # c[2].l[2]
          /\ upper(c[1]) # KW_AT_INCLUDE /\ Len(c[3]) = 2

\* leading spaces of a line
RECURSIVE LeadingSpaces(_)
LeadingSpaces(l) ==
    IF Len(l) > 0 /\ l[1] = " " THEN 1 + LeadingSpaces(Tail(l)) ELSE 0

IsIfLine(l) ==
    LET n == LeadingSpaces(l)
    IN  Len(l) >= n + 4 /\ SubSeq(l, n + 1, n + 4) = <<"@","I","F"," ">>

\* C4: an AT_IF key with the single entry (pred, branch) is the line
\* <indent>@IF pred with pred unchanged, the items of the branch in order at
\* indent + two spaces, and the line <indent>@ENDIF; {"pred": {"X": 1}}
\* gives @IF pred, "  X  1", @ENDIF; every @IF line of the input text has a
\* later @ENDIF line at its own indent.
C4_AtIf ==
    Cp2kDone =>
        /\ \A c \in cp2k_calls(settings) :
              ( /\ is_settings(c[2]) /\ upper(c[1]) = KW_AT_IF
                /\ Len(c[2].items) = 1 /\ is_settings(c[2].items[1][2]) ) =>
                LET pred == c[2].items[1][1]
                    branch == c[2].items[1][2]
                    text == parse(c[1], c[2], c[3])
                    ls == SplitLines(text)
                IN  /\ text = c[3] \o <<"@","I","F"," ">> \o pred \o NL
                                 \o parse_items(branch.items, c[3] \o <<" ", " ">>)
                                 \o c[3] \o <<"@","E","N","D","I","F">> \o NL
                    /\ ls[1] = c[3] \o <<"@","I","F"," ">> \o pred
                    /\ ls[Len(ls)] = c[3] \o <<"@","E","N","D","I","F">>
                    /\ IsInfix(text, out)
        /\ LET ls == SplitLines(out)
           IN  \A i \in DOMAIN ls :
                  IsIfLine(ls[i]) =>
                      \E j \in (i + 1)..Len(ls) :
                          ls[j] = spaces(LeadingSpaces(ls[i]))
                                      \o <<"@","E","N","D","I","F">>
        /\ settings = VTree(<< <<KW_AT_IF,
                 VTree(<< <<<<"p","r","e","d">>,
                            VTree(<< <<<<"X">>, VInt(1)>> >>)>> >>)>> >>)
             => out = <<"@","I","F"," ","p","r","e","d","\n",
                        " "," ","X"," "," ","1","\n",
                        "@","E","N","D","I","F","\n","\n">>

C4_Witness ==
    /\ Cp2kDone
    /\ \E c \in cp2k_calls(settings) :
          /\ is_settings(c[2]) /\ upper(c[1]) = KW_AT_IF
          /\ Len(c[2].items) = 1 /\ Len(c[3]) = 2
          /\ Len(c[2].items[1][2].items) = 2

\* what the _end-aware unwrapper makes of a value
Unwrapped(v) ==
    IF is_settings(v) /\ has_key(v, K_end)
    THEN py_str(lookup(v, K_end)) \o <<" ","e","n","d">>
    ELSE py_str(v)

\* the text get_input writes for the i-th top-level item of an ORCA job
RECURSIVE OrcaPrefix(_)
OrcaPrefix(i) ==
    IF i = 0 THEN <<>>
    ELSE OrcaPrefix(i - 1) \o
         (IF settings.items[i][1] = K_main
          THEN main_line(settings.items[i][2], <<>>)
          ELSE orca_block(settings.items[i][1], settings.items[i][2]))

\* the text of item i sits in out right after the text of the items before
OrcaItemText(i) ==
    SubSeq(out, Len(OrcaPrefix(i - 1)) + 1, Len(OrcaPrefix(i)))

\* C5 as stated: main is the line  ! <v>  and a blank line, <v> being the
\* string form of a scalar and  <_end value> end  for a tree holding _end;
\* the ! line never holds a % block.
C5_AsStated ==
    OrcaDone =>
        \A i \in DOMAIN settings.items :
            ( /\ settings.items[i][1] = K_main
              /\ \/ IsScalar(settings.items[i][2])
                 \/ /\ is_settings(settings.items[i][2])
                    /\ has_key(settings.items[i][2], K_end) ) =>
                /\ OrcaItemText(i)
                       = <<"!", " ">> \o Unwrapped(settings.items[i][2])
                             \o NL \o NL
                /\ ~ contains(<<"%">>, SplitLines(OrcaItemText(i))[1])

\* C5 amended: main is  ! <v>  and a blank line, <v> being the string form
\* of a scalar and the unseparated string forms of the elements of a list;
\* the _end unwrapper is not applied to main: a tree value is written as the
\* % blocks of its own items after the "! ", so for a tree holding _end the
\* ! line is  ! %_end<_end value><6 spaces>end.
C5_MainLine ==
    OrcaDone =>
        \A i \in DOMAIN settings.items :
            settings.items[i][1] = K_main =>
                LET v == settings.items[i][2]
                IN  /\ IsScalar(v) =>
                          /\ OrcaItemText(i) = <<"!", " ">> \o py_str(v) \o NL \o NL
                          /\ ~ contains(<<"%">>, SplitLines(OrcaItemText(i))[1])
                    /\ is_list(v) =>
                          OrcaItemText(i)
                              = <<"!", " ">> \o orca_list(v.l) \o NL \o NL
                    /\ is_settings(v) =>
                          OrcaItemText(i)
                              = <<"!", " ">> \o orca_items(v.items, <<>>)
                                    \o NL \o NL
                    /\ (is_settings(v) /\ Len(v.items) = 1 /\ has_key(v, K_end)) =>
                          SplitLines(OrcaItemText(i))[1]
                              = <<"!"," ","%","_","e","n","d">>
                                    \o py_str(lookup(v, K_end))
                                    \o spaces(6) \o <<"e","n","d">>
                    /\ ( /\ settings = VTree(<< <<K_main, VStr(B3LYP)>> >>)
                         /\ molecule = NoMolecule ) =>
                          out = <<"!", " ">> \o B3LYP \o NL \o NL

C5_Witness ==
    /\ OrcaDone
    /\ Len(settings.items) = 2
    /\ settings.items[2][1] = K_main
    /\ is_settings(settings.items[2][2])
    /\ has_key(settings.items[2][2], K_end)

\* the lines C6 gives for the block of key k with the sub-items its
IsBlockOf(ls, k, its) ==
    LET col == Len(k) + 2
        n == Len(its)
    IN  /\ Len(ls) = n + 2
        /\ SubSeq(ls[1], 1, Len(k) + 1) = <<"%">> \o k
        /\ \A i \in 1..n :
              LET item == its[i][1] \o SP \o Unwrapped(its[i][2])
              IN  IF i = 1 THEN ls[1] = <<"%">> \o k \o SP \o item
                           ELSE ls[i] = spaces(col) \o item
        /\ ls[n + 1] = spaces(col) \o <<"e","n","d">>
        /\ ls[n + 2] = <<>>

\* C6 as stated: EVERY top-level key k other than main whose value is a
\* tree is one block: %k, the sub-items one per line with their keys at
\* column len(k)+2, a closing line of len(k)+2 spaces and end, a blank line.
C6_AsStated ==
    OrcaDone =>
        \A i \in DOMAIN settings.items :
            (settings.items[i][1] # K_main /\ is_settings(settings.items[i][2])) =>
                IsBlockOf(SplitLines(OrcaItemText(i)), settings.items[i][1],
                          settings.items[i][2].items)

\* C6 amended: the same for every such key whose tree is NOT EMPTY; for an
\* empty tree the block is the single line %k, len(k)+2 spaces, end, and
\* the blank line.
C6_Block ==
    OrcaDone =>
        \A i \in DOMAIN settings.items :
            (settings.items[i][1] # K_main /\ is_settings(settings.items[i][2])) =>
                LET k == settings.items[i][1]
                    its == settings.items[i][2].items
                    text == OrcaItemText(i)
                IN  /\ text[Len(text)] = "\n"
                    /\ IF Len(its) > 0
                       THEN IsBlockOf(SplitLines(text), k, its)
                       ELSE SplitLines(text)
                                = << <<"%">> \o k \o spaces(Len(k) + 2)
                                         \o <<"e","n","d">>, <<>> >>

C6_Witness ==
    /\ OrcaDone
    /\ Len(settings.items) = 1
    /\ settings.items[1][1] = <<"b","a","s","i","s">>
    /\ is_settings(settings.items[1][2])
    /\ Len(settings.items[1][2].items) = 2
    /\ is_settings(settings.items[1][2].items[2][2])
    /\ IsScalar(settings.items[1][2].items[1][2])

\* the value C7 gives for a property: the property when it is there and an
\* integer (a Python int, of which bool is a kind), the default otherwise
PropertyOr(props, key, default) ==
    IF \E i \in DOMAIN props.items :
           props.items[i][1] = key /\ props.items[i][2].t \in {"int", "bool"}
    THEN py_str(lookup(props, key))
    ELSE int_str(default)

\* C7: a molecule with atoms gives the header  * xyz <charge> <mult>,
\* charge and multiplicity being the properties when present and integers
\* and 0 and 1 otherwise, each on its own; then one line per atom in order
\* and a closing * line; without a molecule, or with one without atoms,
\* get_input returns the serialized settings alone.
C7_Molecule ==
    OrcaDone =>
        LET base == OrcaPrefix(Len(settings.items))
            ls == SplitLines(SubSeq(out, Len(base) + 1, Len(out)))
        IN  /\ SubSeq(out, 1, Len(base)) = base
            /\ IF molecule.t = "mol" /\ Len(molecule.atoms) > 0
               THEN /\ Len(ls) = Len(molecule.atoms) + 3
                    /\ ls[1] = <<"*"," ","x","y","z"," ">>
                                   \o PropertyOr(molecule.properties, K_charge, 0)
                                   \o SP
                                   \o PropertyOr(molecule.properties,
                                                 K_multiplicity, 1)
                    /\ \A i \in DOMAIN molecule.atoms :
                          ls[i + 1] = atom_str(molecule.atoms[i])
                    /\ ls[Len(molecule.atoms) + 2] = <<"*">>
                    /\ ls[Len(molecule.atoms) + 3] = <<>>
               ELSE out = base

C7_Witness ==
    /\ OrcaDone
    /\ molecule.t = "mol" /\ Len(molecule.atoms) = 2
    /\ molecule.atoms[1] # molecule.atoms[2]
    /\ ~ has_key(molecule.properties, K_charge)
    /\ has_key(molecule.properties, K_multiplicity)
    /\ lookup(molecule.properties, K_multiplicity) = VInt(3)

\* C8: recreate_settings never ends by raising, whatever the first parse,
\* the legacy conversion and the second parse do: it returns a Settings or
\* it logs and returns None.
C8_NeverRaises ==
    AdfDone =>
        /\ ret \in {"Settings", "None"}
        /\ (ret = "None" /\ kf.present) => logged = 1

I2S == "input_to_settings"
CLI == "convert_legacy_input"

\* C10 as stated: whenever the first parse fails, WHATEVER the failure, the
\* legacy conversion is attempted once, and the second parse after it.
C10_AsStated ==
    (AdfDone /\ first \in {"CalledProcessError", "other"}) =>
        /\ Len(calls) >= 2 /\ calls[2] = CLI
        /\ conv = "ok" => calls = <<I2S, CLI, I2S>>

\* C10 amended: the direct parse comes first and once; the legacy
\* conversion is attempted, once, exactly when the first parse failed with
\* CalledProcessError, and the second parse, once, exactly when that
\* conversion returned; after any other failure of the first parse the
\* method logs and returns None without trying the legacy path; None is
\* returned for a parse failure only after the first parse failed otherwise
\* than with CalledProcessError, or after both strategies were tried.
C10_InSequence ==
    job = "adf" =>
        /\ \E n \in 0..3 : calls = SubSeq(<<I2S, CLI, I2S>>, 1, n)
        /\ Len(calls) >= 2 => first = "CalledProcessError"
        /\ Len(calls) = 3 => conv = "ok"
        /\ (AdfDone /\ kf.present) => Len(calls) >= 1
        /\ (AdfDone /\ first = "CalledProcessError") => Len(calls) >= 2
        /\ (AdfDone /\ conv = "ok") => Len(calls) = 3
        /\ (AdfDone /\ first = "other") => (calls = <<I2S>> /\ ret = "None")
        /\ (AdfDone /\ first = "ok") => (calls = <<I2S>> /\ ret = "Settings")
        /\ (AdfDone /\ ret = "None" /\ kf.present) =>
              /\ logged = 1
              /\ \/ first = "other"
                 \/ (calls = <<I2S, CLI, I2S>> /\ second # "ok")

C10_Witness ==
    /\ AdfDone
    /\ calls = <<I2S, CLI, I2S>>
    /\ second = "other"
    /\ ret = "None"

====
